---- MODULE Spec2Model ----
(***************************************************************************)
(* Task lifecycle manager of the telegram reminder scheduler: the task     *)
(* store (shared/database.py), the fire-and-reschedule protocol            *)
(* (scheduler_logic.py) and the scheduler loop (bot.py).                   *)
(*                                                                         *)
(* Time is counted in whole days since 1 Jan 2024 (UTC); a timestamp keeps *)
(* its time of day under every recurrence, so the day number is the part   *)
(* of it the store and the protocol compute with.                          *)
(***************************************************************************)
EXTENDS Integers, Sequences, FiniteSets, TLC

VARIABLES
    rows,     \* scheduled_messages table: id -> row
    seq,      \* AUTOINCREMENT high-water mark of the table
    timers,   \* jobs armed in the job queue (one-shot, each holding its row snapshot)
    runs,     \* protocol runs blocked in the delivery call (Delivering)
    now,      \* utcnow(), in days
    updates,  \* calls of update_scheduled_message made so far
    deletions,\* schedule_deletion tasks created by asyncio.create_task, asleep until due
    lock,     \* the holder of _db_lock (the call inside `with get_db_connection()`)
    calls,    \* store calls and protocol runs taken one statement at a time: caller -> locals
    sent,     \* the slots <<row id, publish_at>> a send to the channel has succeeded for
    last      \* the operation that produced this state, with its arguments and result

vars == <<rows, seq, timers, runs, now, updates, deletions, lock, calls, sent, last>>

\* ------------------------------------------------------------------ bounds

\* rows admitted in one behaviour
MaxRows == 2

\* the last day the clock reaches day by day, and the latest publish_at requested
MaxTime == 1

\* calls of update_scheduled_message in one behaviour
MaxUpdates == 1

\* the last day number the recurrence calculator is asked about (through March 2026)
MaxDay == 800

\* the last day the clock reaches when it moves a month at a time
LastDay == 62

\* ------------------------------------------------------- program constants

\* timedelta(days=365): the horizon added to utcnow() for max_end_date
HorizonDays == 365

\* cleanup_old_tasks(max_age_days=30): the default age, in days, past which a
\* cancelled row is deleted
max_age_days == 30

None == "None"

\* _db_lock = threading.RLock(), held by nobody
NoOwner == "nobody"

\* sqlite3.connect() sets no row_factory: fetchone()/fetchall() give plain tuples
row_factory == "tuple"

\* row['name'] on a tuple raises TypeError; on a mapping row it reads the column
SubscriptByNameRaises == row_factory = "tuple"

\* ------------------------------------------------------------------ inputs

Chats == {-1001, -1002}

\* the four buttons of the conversation's recurrence keyboard
Recurrences == {"once", "daily", "weekly", "monthly"}

\* the recurrences the front-end operations of Spec draw from
NearRecurrences == {"once", "daily"}

\* the content a conversation collects (receive_content): here a text message
Contents ==
    { [text |-> "Hello", photo_file_id |-> None, document_file_id |-> None, caption |-> None] }

\* what a conversation hands to add_scheduled_message (user_sessions[user_id])
\* (delete_after_days: 0 stands for None, "days if days > 0 else None")
Session(c, k, r, pa) ==
    [chat_id |-> c, text |-> k.text, photo_file_id |-> k.photo_file_id,
     document_file_id |-> k.document_file_id, caption |-> k.caption,
     publish_at |-> pa, recurrence |-> r, pin |-> FALSE, notify |-> TRUE,
     delete_after_days |-> 0]

\* candidates scheduled at, or one day past, the horizon of their max_end_date
FarCandidates(t) ==
    { Session(c, k, r, t + HorizonDays + d) :
        c \in Chats, k \in Contents, r \in Recurrences, d \in {0, 1} }

\* candidates due the next day
Candidates(t) ==
    { Session(c, k, r, t + 1) : c \in Chats, k \in Contents, r \in NearRecurrences }

\* ---------------------------------------------------------------- calendar

IsLeap(y) == (y % 4 = 0 /\ y % 100 # 0) \/ y % 400 = 0

DaysInMonth(y, m) ==
    IF m = 2 THEN (IF IsLeap(y) THEN 29 ELSE 28)
    ELSE IF m \in {4, 6, 9, 11} THEN 30 ELSE 31

RECURSIVE WalkDate(_, _, _)
WalkDate(y, m, rest) ==
    IF rest < DaysInMonth(y, m) THEN [y |-> y, m |-> m, d |-> rest + 1]
    ELSE IF m = 12 THEN WalkDate(y + 1, 1, rest - DaysInMonth(y, m))
    ELSE WalkDate(y, m + 1, rest - DaysInMonth(y, m))

\* day number -> calendar date
ToDate(n) == WalkDate(2024, 1, n)

RECURSIVE DaysBefore(_, _)
DaysBefore(y, m) ==
    IF y = 2024 /\ m = 1 THEN 0
    ELSE IF m = 1 THEN DaysBefore(y - 1, 12) + DaysInMonth(y - 1, 12)
    ELSE DaysBefore(y, m - 1) + DaysInMonth(y, m - 1)

\* calendar date -> day number
FromDate(y, m, d) == DaysBefore(y, m) + d - 1

Min(a, b) == IF a <= b THEN a ELSE b

\* next_recurrence_time counting daily and weekly from the first publication
next_recurrence_time_AnchorsOriginal(original, recurrence, lastt) ==
    IF recurrence = "daily" THEN {original + 1}
    ELSE IF recurrence = "weekly" THEN {original + 7}
    ELSE IF recurrence = "monthly" THEN
        LET dt == ToDate(lastt)
            ny == IF dt.m = 12 THEN dt.y + 1 ELSE dt.y
            nm == IF dt.m = 12 THEN 1 ELSE dt.m + 1
        IN  {FromDate(ny, nm, Min(dt.d, DaysInMonth(ny, nm)))}
    ELSE {}

\* next_recurrence_time keeping the day of month without the clamp (31 Feb = 2 or 3 Mar)
next_recurrence_time_NoClamp(original, recurrence, lastt) ==
    IF recurrence = "daily" THEN {lastt + 1}
    ELSE IF recurrence = "weekly" THEN {lastt + 7}
    ELSE IF recurrence = "monthly" THEN
        LET dt == ToDate(lastt)
            ny == IF dt.m = 12 THEN dt.y + 1 ELSE dt.y
            nm == IF dt.m = 12 THEN 1 ELSE dt.m + 1
        IN  {FromDate(ny, nm, dt.d)}
    ELSE {}

\* shared/utils.py: the next fire time after `lastt` as a one-element set, or {} for None
next_recurrence_time(original, recurrence, lastt) ==
    IF recurrence = "daily" THEN {lastt + 1}
    ELSE IF recurrence = "weekly" THEN {lastt + 7}
    ELSE IF recurrence = "monthly" THEN
        LET dt == ToDate(lastt)
            ny == IF dt.m = 12 THEN dt.y + 1 ELSE dt.y
            nm == IF dt.m = 12 THEN 1 ELSE dt.m + 1
        IN  {FromDate(ny, nm, Min(dt.d, DaysInMonth(ny, nm)))}
    ELSE {}

\* shared/utils.py: digest over the six arguments add_scheduled_message passes
generate_task_hash(chat_id, text, photo_file_id, document_file_id, publish_at, recurrence) ==
    <<chat_id, text, photo_file_id, document_file_id, publish_at, recurrence>>

\* ------------------------------------------------------------------- store

ActiveIds(store) == {i \in DOMAIN store : store[i].active}

RECURSIVE SortByPublishAt(_, _)
SortByPublishAt(store, ids) ==
    IF ids = {} THEN <<>>
    ELSE LET first == CHOOSE i \in ids : \A j \in ids :
                          \/ store[i].publish_at < store[j].publish_at
                          \/ store[i].publish_at = store[j].publish_at /\ i <= j
         IN  <<first>> \o SortByPublishAt(store, ids \ {first})

\* SELECT ... WHERE active = 1 ORDER BY publish_at  (the ids of the rows, in order)
get_all_active_messages(store) == SortByPublishAt(store, ActiveIds(store))

\* SELECT ... WHERE id = ?
get_message_by_id(store, msg_id) ==
    IF msg_id \in DOMAIN store THEN {store[msg_id]} ELSE {}

\* deactivate_message flipping the flag (SET active = NOT active)
deactivate_message_Toggles(store, msg_id) ==
    [i \in DOMAIN store |->
        IF i = msg_id THEN [store[i] EXCEPT !.active = ~store[i].active] ELSE store[i]]

\* UPDATE scheduled_messages SET active = 0 WHERE id = ?
deactivate_message(store, msg_id) ==
    [i \in DOMAIN store |-> IF i = msg_id THEN [store[i] EXCEPT !.active = FALSE] ELSE store[i]]

\* update_next_publish_time without the SELECT active guard
update_next_publish_time_NoActiveCheck(store, msg_id, next_time) ==
    IF msg_id \notin DOMAIN store THEN store
    ELSE [store EXCEPT ![msg_id].publish_at = next_time]

\* update_next_publish_time also recomputing task_hash from the new publish_at
update_next_publish_time_Rehashes(store, msg_id, next_time) ==
    IF msg_id \notin DOMAIN store \/ ~store[msg_id].active THEN store
    ELSE LET row == store[msg_id]
         IN  [store EXCEPT ![msg_id] =
                 [row EXCEPT !.publish_at = next_time,
                             !.task_hash = generate_task_hash(row.chat_id, row.text,
                                               row.photo_file_id, row.document_file_id,
                                               next_time, row.recurrence)]]

\* update_next_publish_time: SELECT active; return if missing or inactive; else UPDATE publish_at
update_next_publish_time(store, msg_id, next_time) ==
    IF msg_id \notin DOMAIN store \/ ~store[msg_id].active THEN store
    ELSE [store EXCEPT ![msg_id].publish_at = next_time]

\* get_db_connection entered without taking _db_lock
get_db_connection_NoLock(owner, caller) == {owner}

\* get_db_connection: `with _db_lock:` lets the caller in when nobody else holds the
\* re-entrant lock. The holders the entry can leave behind: none while the caller blocks
get_db_connection(owner, caller) == IF owner \in {NoOwner, caller} THEN {caller} ELSE {}

\* leaving the `with get_db_connection()` block: conn.close(), then _db_lock is released
ReleasedBy(owner, caller) == IF owner = caller THEN NoOwner ELSE owner

\* the duplicate check of add_scheduled_message: an active row with this task_hash
ExistingDuplicate(store, task_hash) ==
    {i \in DOMAIN store : store[i].task_hash = task_hash /\ store[i].active}

TaskHashOf(data) ==
    generate_task_hash(data.chat_id, data.text, data.photo_file_id,
                       data.document_file_id, data.publish_at, data.recurrence)

NewRow(data, t) ==
    [chat_id |-> data.chat_id, text |-> data.text, photo_file_id |-> data.photo_file_id,
     document_file_id |-> data.document_file_id, caption |-> data.caption,
     publish_at |-> data.publish_at, original_publish_at |-> data.publish_at,
     recurrence |-> data.recurrence, pin |-> data.pin, notify |-> data.notify,
     delete_after_days |-> data.delete_after_days, active |-> TRUE,
     created_at |-> t, max_end_date |-> t + HorizonDays, task_hash |-> TaskHashOf(data)]

Inserted(store, mark, data, t) ==
    [result |-> "ok", id |-> mark + 1,
     rows |-> [i \in DOMAIN store \cup {mark + 1} |->
                  IF i = mark + 1 THEN NewRow(data, t) ELSE store[i]],
     seq |-> mark + 1]

\* add_scheduled_message on a table whose id is INTEGER PRIMARY KEY without
\* AUTOINCREMENT: the new rowid is one more than the largest rowid in the table
add_scheduled_message_ReusesRowid(store, mark, data, t) ==
    LET top == IF DOMAIN store = {} THEN 0
               ELSE CHOOSE i \in DOMAIN store : \A j \in DOMAIN store : j <= i
    IN  IF ExistingDuplicate(store, TaskHashOf(data)) # {}
        THEN [result |-> "ValueError", id |-> 0, rows |-> store, seq |-> mark]
        ELSE Inserted(store, top, data, t)

\* add_scheduled_message with the duplicate check looking at retired rows (active = 0)
add_scheduled_message_ChecksInactive(store, mark, data, t) ==
    IF {i \in DOMAIN store : store[i].task_hash = TaskHashOf(data) /\ ~store[i].active} # {}
    THEN [result |-> "ValueError", id |-> 0, rows |-> store, seq |-> mark]
    ELSE Inserted(store, mark, data, t)

\* add_scheduled_message without the duplicate check
add_scheduled_message_NoCheck(store, mark, data, t) == Inserted(store, mark, data, t)

\* add_scheduled_message: the result, the new table and the new AUTOINCREMENT mark
add_scheduled_message(store, mark, data, t) ==
    IF ExistingDuplicate(store, TaskHashOf(data)) # {}
    THEN [result |-> "ValueError", id |-> 0, rows |-> store, seq |-> mark]
    ELSE Inserted(store, mark, data, t)

\* update_scheduled_message also writing original_publish_at = publish_at
update_scheduled_message_ResetsOriginal(store, msg_id, data, t) ==
    IF msg_id \notin DOMAIN store THEN store
    ELSE [store EXCEPT ![msg_id] =
             [@ EXCEPT !.chat_id = data.chat_id, !.text = data.text,
                       !.photo_file_id = data.photo_file_id,
                       !.document_file_id = data.document_file_id,
                       !.caption = data.caption, !.publish_at = data.publish_at,
                       !.original_publish_at = data.publish_at,
                       !.recurrence = data.recurrence, !.pin = data.pin,
                       !.notify = data.notify,
                       !.delete_after_days = data.delete_after_days,
                       !.max_end_date = t + HorizonDays]]

\* update_scheduled_message counting the new max_end_date from the new publish_at
update_scheduled_message_ExtendsFromPublishAt(store, msg_id, data, t) ==
    IF msg_id \notin DOMAIN store THEN store
    ELSE [store EXCEPT ![msg_id] =
             [@ EXCEPT !.chat_id = data.chat_id, !.text = data.text,
                       !.photo_file_id = data.photo_file_id,
                       !.document_file_id = data.document_file_id,
                       !.caption = data.caption, !.publish_at = data.publish_at,
                       !.recurrence = data.recurrence, !.pin = data.pin,
                       !.notify = data.notify,
                       !.delete_after_days = data.delete_after_days,
                       !.max_end_date = data.publish_at + HorizonDays]]

\* update_scheduled_message also writing active = 1
update_scheduled_message_Reactivates(store, msg_id, data, t) ==
    IF msg_id \notin DOMAIN store THEN store
    ELSE [store EXCEPT ![msg_id] =
             [@ EXCEPT !.chat_id = data.chat_id, !.text = data.text,
                       !.photo_file_id = data.photo_file_id,
                       !.document_file_id = data.document_file_id,
                       !.caption = data.caption, !.publish_at = data.publish_at,
                       !.recurrence = data.recurrence, !.pin = data.pin,
                       !.notify = data.notify,
                       !.delete_after_days = data.delete_after_days,
                       !.active = TRUE,
                       !.max_end_date = t + HorizonDays]]

\* update_scheduled_message: rewrites the content and schedule columns and max_end_date
update_scheduled_message(store, msg_id, data, t) ==
    IF msg_id \notin DOMAIN store THEN store
    ELSE [store EXCEPT ![msg_id] =
             [@ EXCEPT !.chat_id = data.chat_id, !.text = data.text,
                       !.photo_file_id = data.photo_file_id,
                       !.document_file_id = data.document_file_id,
                       !.caption = data.caption, !.publish_at = data.publish_at,
                       !.recurrence = data.recurrence, !.pin = data.pin,
                       !.notify = data.notify,
                       !.delete_after_days = data.delete_after_days,
                       !.max_end_date = t + HorizonDays]]

\* cleanup_old_tasks: DELETE FROM scheduled_messages WHERE active = 0 AND created_at < cutoff
cleanup_old_tasks(store, t) ==
    LET cutoff == t - max_age_days
        kept == {i \in DOMAIN store : ~(~store[i].active /\ store[i].created_at < cutoff)}
    IN  [i \in kept |-> store[i]]

\* ------------------------------------------------------------ scheduler loop

\* the job schedule_all_jobs arms for a row: run_once(lambda: publish_..._and_reschedule(
\* ctx, r[0], r[1], r[2], r[3], r[4], r[5], r[8], r[9], r[10], r[11], r[6]), publish_at)
JobOf(store, i) ==
    [run_at |-> store[i].publish_at, msg_id |-> i, chat_id |-> store[i].chat_id,
     recurrence |-> store[i].recurrence, pin |-> store[i].pin,
     notify |-> store[i].notify, delete_after_days |-> store[i].delete_after_days,
     original_publish_at |-> store[i].publish_at]

\* a publish_at column that is not an ISO timestamp (day numbers are never negative)
Unparsable == -1

\* datetime.datetime.fromisoformat: the parsed time, or {} where it raises ValueError
fromisoformat(publish_at_str) == IF publish_at_str < 0 THEN {} ELSE {publish_at_str}

\* the loop of schedule_all_jobs from the k-th loaded row on: the jobs armed, and whether
\* fromisoformat raised (nothing in the loop catches it, so the rows after it are not seen)
RECURSIVE ArmJobs(_, _, _, _)
ArmJobs(store, messages, k, t) ==
    IF k > Len(messages) THEN [jobs |-> {}, raised |-> FALSE]
    ELSE IF fromisoformat(store[messages[k]].publish_at) = {}
         THEN [jobs |-> {}, raised |-> TRUE]
         ELSE LET rest == ArmJobs(store, messages, k + 1, t)
              IN  [jobs |-> (IF store[messages[k]].publish_at > t
                             THEN {JobOf(store, messages[k])} ELSE {}) \cup rest.jobs,
                   raised |-> rest.raised]

\* schedule_all_jobs arming every active row, those whose publish_at has passed included
schedule_all_jobs_ArmsOverdue(store, t) == { JobOf(store, i) : i \in ActiveIds(store) }

\* schedule_all_jobs: remove_all_jobs(), then one job per active row whose publish_at is
\* still in the future; the job queue it leaves behind
schedule_all_jobs(store, t) == ArmJobs(store, get_all_active_messages(store), 1, t).jobs

\* ---------------------------------------------------- fire-and-reschedule

Outcomes == {"ok", "transient", "forbidden"}

\* what bot.send_message / send_photo / send_document does: returns the message, or raises
\* BadRequest / Forbidden ("bad_request"), another TelegramError, or anything else
SendOutcomes == {"sent", "bad_request", "telegram_error", "exception"}

\* what bot.pin_chat_message does
PinOutcomes == {"pinned", "bad_request", "telegram_error", "exception"}

\* publish_message: the send, then the pin inside try / except (BadRequest, Forbidden);
\* any other exception of the pin leaves through the outer handlers, which return None
publish_message(pin, send, pinned) ==
    IF send = "bad_request" THEN "forbidden"
    ELSE IF send # "sent" THEN "transient"
    ELSE IF pin /\ pinned \in {"telegram_error", "exception"} THEN "transient"
    ELSE "ok"

\* schedule_deletion(chat_id, message_id, delay_days) as created by publish_message at t:
\* a delay outside (1, 2, 3) becomes 1; `task` is the row the message was sent for
schedule_deletion(run, t) ==
    [chat_id |-> run.chat_id, task |-> run.msg_id,
     due |-> t + (IF run.delete_after_days \in {1, 2, 3} THEN run.delete_after_days ELSE 1)]

\* deactivate_chat_tasks deactivating every active row, whatever its chat
deactivate_chat_tasks_EveryChat(store, chat_id) ==
    [i \in DOMAIN store |-> [store[i] EXCEPT !.active = FALSE]]

\* deactivate_chat_tasks: task['chat_id'] is evaluated on the first active row; the
\* TypeError of a tuple row is caught by the function's own except and nothing is written
deactivate_chat_tasks(store, chat_id) ==
    LET tasks == get_all_active_messages(store)
    IN  IF Len(tasks) = 0 \/ SubscriptByNameRaises THEN store
        ELSE [i \in DOMAIN store |->
                 IF store[i].active /\ store[i].chat_id = chat_id
                 THEN [store[i] EXCEPT !.active = FALSE] ELSE store[i]]

\* publish_and_reschedule of a recurring row from the row get_message_by_id returned
\* (task) to the write: update_next_publish_time or deactivate_message
RescheduleFrom(store, run, task) ==
    IF task = {} THEN store
    ELSE IF SubscriptByNameRaises THEN store   \* task['publish_at']: TypeError, caught
    ELSE LET row == CHOOSE r \in task : TRUE
             next_time == next_recurrence_time(run.original_publish_at,
                                               run.recurrence, row.publish_at)
         IN  IF next_time # {} THEN
                 LET nt == CHOOSE n \in next_time : TRUE
                 IN  IF nt > row.max_end_date
                     THEN deactivate_message(store, run.msg_id)
                     ELSE update_next_publish_time(store, run.msg_id, nt)
             ELSE deactivate_message(store, run.msg_id)

\* publish_and_reschedule, the part after a telegram message id was obtained
Reschedule(store, run) ==
    IF run.recurrence # "once"
    THEN RescheduleFrom(store, run, get_message_by_id(store, run.msg_id))
    ELSE deactivate_message(store, run.msg_id)

\* publish_and_reschedule leaving a delivered once row as it is
publish_and_reschedule_KeepsOnce(store, run, outcome) ==
    IF outcome = "forbidden" THEN deactivate_chat_tasks(store, run.chat_id)
    ELSE IF outcome = "transient" THEN store
    ELSE IF run.recurrence # "once" THEN Reschedule(store, run)
    ELSE store

\* publish_and_reschedule retiring the row when publish_message returns None
publish_and_reschedule_RetiresOnNone(store, run, outcome) ==
    IF outcome = "forbidden" THEN deactivate_chat_tasks(store, run.chat_id)
    ELSE IF outcome = "transient" THEN deactivate_message(store, run.msg_id)
    ELSE Reschedule(store, run)

\* publish_and_reschedule after publish_message has returned or raised:
\*   "forbidden" : BadRequest / Forbidden re-raised by publish_message
\*   "transient" : publish_message returned None (TelegramError or any other exception)
\*   "ok"        : a telegram message id was obtained
publish_and_reschedule(store, run, outcome) ==
    IF outcome = "forbidden" THEN deactivate_chat_tasks(store, run.chat_id)
    ELSE IF outcome = "transient" THEN store
    ELSE Reschedule(store, run)

\* ------------------------------------------------------------------ actions

Init ==
    /\ rows = <<>>
    /\ seq = 0
    /\ timers = {}
    /\ runs = {}
    /\ now = 0
    /\ updates = 0
    /\ deletions = {}
    /\ lock = NoOwner
    /\ calls = <<>>
    /\ sent = {}
    /\ last = [op |-> "init", id |-> 0, result |-> "ok", recurrence |-> "-"]

\* bot.py select_delete_days: add_scheduled_message(data), then schedule_all_jobs; the
\* ValueError of a duplicate leaves the handler before the rebuild
AdmitOf(data) ==
    LET r == add_scheduled_message(rows, seq, data, now)
    IN  /\ seq < MaxRows
        /\ rows' = r.rows
        /\ seq' = r.seq
        /\ timers' = IF r.result = "ok" THEN schedule_all_jobs(r.rows, now) ELSE timers
        /\ last' = [op |-> "admit", id |-> r.id, result |-> r.result, recurrence |-> "-"]
        /\ UNCHANGED <<sent, lock, calls, runs, now, updates, deletions>>

Admit == \E data \in Candidates(now) : data.publish_at <= MaxTime /\ AdmitOf(data)

\* an admission scheduled a year ahead
AdmitFar == \E data \in FarCandidates(now) : AdmitOf(data)

\* bot.py delete_task: get_message_by_id, deactivate_message, schedule_all_jobs
DeleteOf(msg_id) ==
    LET found == get_message_by_id(rows, msg_id) # {}
        store == IF found THEN deactivate_message(rows, msg_id) ELSE rows
    IN  /\ rows' = store
        /\ timers' = IF found THEN schedule_all_jobs(store, now) ELSE timers
        /\ last' = [op |-> "delete_task", id |-> msg_id,
                    result |-> IF found THEN "ok" ELSE "not_found", recurrence |-> "-"]
        /\ UNCHANGED <<sent, lock, calls, seq, runs, now, updates, deletions>>

DeleteTask == \E msg_id \in 1..MaxRows : DeleteOf(msg_id)

\* web_api.py admin_delete_task: deactivate_message only; the job queue lives in the bot.
\* last.result tells what the row was before the call; the handler answers the same way
AdminDeleteOf(msg_id) ==
    /\ rows' = deactivate_message(rows, msg_id)
    /\ last' = [op |-> "admin_delete", id |-> msg_id,
                result |-> IF msg_id \notin DOMAIN rows THEN "not_found"
                           ELSE IF rows[msg_id].active THEN "ok" ELSE "inactive",
                recurrence |-> "-"]
    /\ UNCHANGED <<sent, lock, calls, seq, timers, runs, now, updates, deletions>>

AdminDeleteTask == \E msg_id \in 1..MaxRows : AdminDeleteOf(msg_id)

\* update_scheduled_message called for an existing row (it has no caller that rebuilds)
UpdateOf(msg_id, data) ==
    /\ updates < MaxUpdates
    /\ msg_id \in DOMAIN rows
    /\ rows' = update_scheduled_message(rows, msg_id, data, now)
    /\ updates' = updates + 1
    /\ last' = [op |-> "update", id |-> msg_id, result |-> "ok", recurrence |-> "-"]
    /\ UNCHANGED <<sent, lock, calls, seq, timers, runs, now, deletions>>

UpdateTask ==
    \E msg_id \in 1..MaxRows : \E data \in Candidates(now) :
        data.publish_at <= MaxTime /\ UpdateOf(msg_id, data)

\* a day passes
Tick ==
    /\ now < MaxTime
    /\ now' = now + 1
    /\ last' = [op |-> "tick", id |-> 0, result |-> "ok", recurrence |-> "-"]
    /\ UNCHANGED <<sent, lock, calls, rows, seq, timers, runs, updates, deletions>>

\* nothing happens until the next armed job is due
Sleep ==
    \E j \in timers :
        /\ j.run_at > now
        /\ \A k \in timers : k.run_at > now => j.run_at <= k.run_at
        /\ now' = j.run_at
        /\ last' = [op |-> "tick", id |-> 0, result |-> "ok", recurrence |-> "-"]
        /\ UNCHANGED <<sent, lock, calls, rows, seq, timers, runs, updates, deletions>>

\* a due one-shot job leaves the job queue and its protocol run enters publish_message
TimerFires ==
    \E j \in timers :
        /\ j.run_at <= now
        /\ timers' = timers \ {j}
        /\ runs' = runs \cup {j}
        /\ last' = [op |-> "timer", id |-> j.msg_id, result |-> "ok",
                    recurrence |-> j.recurrence, chat_id |-> j.chat_id]
        /\ UNCHANGED <<sent, lock, calls, rows, seq, now, updates, deletions>>

\* the slot a run delivers: its row and the publish_at the job was armed with (r[6])
SlotOf(run) == <<run.msg_id, run.original_publish_at>>

\* the delivery call of a run returns or raises, and the run finishes; `delivered` says
\* whether its send call returned a message
Fire(run, outcome, delivered) ==
    /\ run \in runs
    /\ rows' = publish_and_reschedule(rows, run, outcome)
    /\ runs' = runs \ {run}
    /\ deletions' = IF outcome = "ok" /\ run.delete_after_days > 0
                    THEN deletions \cup {schedule_deletion(run, now)} ELSE deletions
    /\ sent' = IF delivered THEN sent \cup {SlotOf(run)} ELSE sent
    /\ last' = [op |-> "fire", id |-> run.msg_id, result |-> outcome,
                recurrence |-> run.recurrence, chat_id |-> run.chat_id]
    /\ UNCHANGED <<lock, calls, seq, timers, now, updates>>

\* whether the message was sent when publish_message ends with `outcome`: always when it
\* returns the message id, never when the send raised BadRequest / Forbidden, and either
\* way when it returns None for a pinned message (the send or the pin has failed)
Delivered(run, outcome) ==
    IF outcome = "ok" THEN {TRUE}
    ELSE IF outcome = "transient" /\ run.pin THEN {TRUE, FALSE}
    ELSE {FALSE}

FireOf(run, outcome) == \E delivered \in Delivered(run, outcome) : Fire(run, outcome, delivered)

FireDelivered == \E run \in runs : FireOf(run, "ok")

FireTransient == \E run \in runs : FireOf(run, "transient")

FireForbidden == \E run \in runs : FireOf(run, "forbidden")

Next ==
    \/ Admit
    \/ DeleteTask
    \/ AdminDeleteTask
    \/ UpdateTask
    \/ Tick
    \/ TimerFires
    \/ FireDelivered
    \/ FireTransient
    \/ FireForbidden

Spec == Init /\ [][Next]_vars

\* Spec under the scheduling the runtime provides: time passes, the job queue runs
\* its due jobs, and a delivery call comes back
FairSpec ==
    /\ Spec
    /\ WF_vars(Tick)
    /\ WF_vars(TimerFires)
    /\ WF_vars(FireDelivered \/ FireTransient \/ FireForbidden)

\* tasks scheduled a year ahead, the clock moving from one due job to the next
NextHorizon ==
    \/ AdmitFar
    \/ DeleteTask
    \/ Sleep
    \/ TimerFires
    \/ FireDelivered
    \/ FireTransient
    \/ FireForbidden

SpecHorizon == Init /\ [][NextHorizon]_vars

\* ---------------------------------------------------------------- delivery

\* candidates due the next day that ask for a pin and for a deletion after one day
DeliveryCandidates(t) ==
    { [Session(c, k, r, t + 1) EXCEPT !.pin = p, !.delete_after_days = d] :
        c \in {-1001}, k \in Contents, r \in NearRecurrences, p \in BOOLEAN, d \in {0, 1} }

AdmitDelivery ==
    \E data \in DeliveryCandidates(now) : data.publish_at <= MaxTime /\ AdmitOf(data)

\* the delivery call of a run, by what the send and the pin did
DeliverOf(run, send, pinned) ==
    Fire(run, publish_message(run.pin, send, pinned), send = "sent")

Deliver == \E run \in runs : \E send \in SendOutcomes : \E pinned \in PinOutcomes :
               DeliverOf(run, send, pinned)

\* nothing happens until the next deferred deletion is due (asyncio.sleep)
Wake ==
    \E d \in deletions :
        /\ d.due > now
        /\ \A e \in deletions : e.due > now => d.due <= e.due
        /\ now' = d.due
        /\ last' = [op |-> "tick", id |-> 0, result |-> "ok", recurrence |-> "-"]
        /\ UNCHANGED <<sent, lock, calls, rows, seq, timers, runs, updates, deletions>>

\* schedule_deletion deactivating the owning row when delete_message fails
DeletionRunsOf_RetiresOnFailure(d, outcome) ==
    /\ d \in deletions
    /\ d.due <= now
    /\ deletions' = deletions \ {d}
    /\ rows' = IF outcome = "deleted" THEN rows ELSE deactivate_message(rows, d.task)
    /\ last' = [op |-> "deletion", id |-> d.task, result |-> outcome, recurrence |-> "-"]
    /\ UNCHANGED <<sent, lock, calls, seq, timers, runs, now, updates>>

\* schedule_deletion after its sleep: bot.delete_message, every exception logged
DeletionRunsOf(d, outcome) ==
    /\ d \in deletions
    /\ d.due <= now
    /\ deletions' = deletions \ {d}
    /\ last' = [op |-> "deletion", id |-> d.task, result |-> outcome, recurrence |-> "-"]
    /\ UNCHANGED <<sent, lock, calls, rows, seq, timers, runs, now, updates>>

DeletionRuns ==
    \E d \in deletions : \E outcome \in {"deleted", "bad_request", "exception"} :
        DeletionRunsOf(d, outcome)

NextDelivery ==
    \/ AdmitDelivery
    \/ DeleteTask
    \/ Tick
    \/ Wake
    \/ TimerFires
    \/ Deliver
    \/ DeletionRuns

SpecDelivery == Init /\ [][NextDelivery]_vars

\* ----------------------------------------------------------------- rebuild

\* recurrence columns of stored rows: two of the keyboard's values and one outside them
StoredRecurrences == {"once", "daily", "hourly"}

\* rows as a database file may hold them when the bot starts: well-formed or not,
\* active or cancelled
StoredRows ==
    { [NewRow(Session(-1001, k, r, pa), 0) EXCEPT !.active = a] :
        k \in Contents, r \in StoredRecurrences, pa \in {Unparsable, 1, 2},
        a \in BOOLEAN }

StoredTables ==
    {<<>>} \cup {<<r>> : r \in StoredRows} \cup {<<r1, r2>> : r1 \in StoredRows, r2 \in StoredRows}

\* main() over an existing database: init_db, then the first schedule_all_jobs is due
InitRebuild ==
    /\ rows \in StoredTables
    /\ seq = Len(rows)
    /\ timers = {}
    /\ runs = {}
    /\ now = 0
    /\ updates = 0
    /\ deletions = {}
    /\ lock = NoOwner
    /\ calls = <<>>
    /\ sent = {}
    /\ last = [op |-> "init", id |-> 0, result |-> "ok", recurrence |-> "-"]

\* schedule_all_jobs(job_queue) as main and the handlers call it
Rebuild ==
    /\ timers' = schedule_all_jobs(rows, now)
    /\ last' = [op |-> "rebuild", id |-> 0,
                result |-> IF ArmJobs(rows, get_all_active_messages(rows), 1, now).raised
                           THEN "ValueError" ELSE "ok",
                recurrence |-> "-"]
    /\ UNCHANGED <<sent, lock, calls, rows, seq, runs, now, updates, deletions>>

NextRebuild ==
    \/ Rebuild
    \/ AdminDeleteTask
    \/ Tick

SpecRebuild == InitRebuild /\ [][NextRebuild]_vars

\* ----------------------------------------------------- recurrence calculator

\* one call of next_recurrence_time(original, recurrence, last), with its result
Asked(original, recurrence, lastt) ==
    [op |-> "next", id |-> 0, result |-> "ok", recurrence |-> recurrence,
     original |-> original, lastt |-> lastt,
     next |-> next_recurrence_time(original, recurrence, lastt)]

\* the first call for a row: last is the publish_at the row was admitted with
InitCalendar ==
    /\ rows = <<>>
    /\ seq = 0
    /\ timers = {}
    /\ runs = {}
    /\ now = 0
    /\ updates = 0
    /\ deletions = {}
    /\ lock = NoOwner
    /\ calls = <<>>
    /\ sent = {}
    /\ \E original \in 0..MaxDay : \E recurrence \in Recurrences :
           last = Asked(original, recurrence, original)

\* the call after an advance: last is the occurrence the call before it returned
NextOccurrence ==
    /\ \E lastt \in last.next :
           /\ lastt <= MaxDay
           /\ last' = Asked(last.original, last.recurrence, lastt)
    /\ UNCHANGED <<sent, lock, calls, rows, seq, timers, runs, now, updates, deletions>>

SpecCalendar == InitCalendar /\ [][NextOccurrence]_vars

\* ------------------------------------------------------------- conversation

\* the sessions a conversation can hold at t: input_date accepted their date at some
\* t0 <= t (utc_dt > utcnow() then), and the buttons after it were pressed since
PendingSessions(t) == UNION { Candidates(t0) : t0 \in 0..t }

\* select_delete_days on a session whose date was entered earlier in the conversation
AdmitLate == \E data \in PendingSessions(now) : AdmitOf(data)

\* a day passes while a conversation is open
Wait ==
    /\ now < MaxTime + 1
    /\ now' = now + 1
    /\ last' = [op |-> "tick", id |-> 0, result |-> "ok", recurrence |-> "-"]
    /\ UNCHANGED <<sent, lock, calls, rows, seq, timers, runs, updates, deletions>>

NextConversation ==
    \/ AdmitLate
    \/ Wait
    \/ TimerFires
    \/ FireDelivered
    \/ FireTransient

SpecConversation == Init /\ [][NextConversation]_vars

\* the Task Store called directly: admit, cancel and advance
\* (update_next_publish_time has one call site, scheduler_logic.py:202)
AdvanceOf(msg_id, next_time) ==
    /\ rows' = update_next_publish_time(rows, msg_id, next_time)
    /\ last' = [op |-> "advance", id |-> msg_id,
                result |-> IF msg_id \notin DOMAIN rows THEN "not_found"
                           ELSE IF rows[msg_id].active THEN "ok" ELSE "inactive",
                recurrence |-> "-"]
    /\ UNCHANGED <<sent, lock, calls, seq, timers, runs, now, updates, deletions>>

\* the next occurrence handed to advance: a day or a week ahead
Advance == \E msg_id \in 1..MaxRows : \E d \in {1, 7} : AdvanceOf(msg_id, now + d)

NextStore ==
    \/ Admit
    \/ AdminDeleteTask
    \/ Advance

SpecStore == Init /\ [][NextStore]_vars

\* ---------------------------------------------------------------- lifecycle

\* candidates for one channel, due the next day
NearCandidates(t) == { Session(-1001, k, r, t + 1) : k \in Contents, r \in NearRecurrences }

\* an admission to that channel on the first days
AdmitNear == \E data \in NearCandidates(now) : data.publish_at <= MaxTime /\ AdmitOf(data)

\* update_scheduled_message called with a session whose date is the next day
UpdateLater ==
    \E msg_id \in 1..MaxRows : \E data \in NearCandidates(now) : UpdateOf(msg_id, data)

\* every operation that writes a row: admit, cancel, update, advance, and the protocol
NextLifecycle ==
    \/ AdmitNear
    \/ DeleteTask
    \/ UpdateLater
    \/ Advance
    \/ Tick
    \/ TimerFires
    \/ FireDelivered
    \/ FireForbidden

SpecLifecycle == Init /\ [][NextLifecycle]_vars

\* -------------------------------------------------------------- fingerprint

\* daily candidates for one channel, due the next day or the day after
SoonCandidates(t) == { Session(-1001, k, "daily", t + d) : k \in Contents, d \in {1, 2} }

AdmitSoon == \E data \in SoonCandidates(now) : AdmitOf(data)

UpdateSoon ==
    \E msg_id \in 1..MaxRows : \E data \in SoonCandidates(now) : UpdateOf(msg_id, data)

\* the operations that write a stored row: admit, cancel, update and advance
NextFingerprint ==
    \/ AdmitSoon
    \/ DeleteTask
    \/ UpdateSoon
    \/ Advance
    \/ Tick

SpecFingerprint == Init /\ [][NextFingerprint]_vars

\* ------------------------------------------------------------------ cleanup

\* an admission on any day, due the day after
AdmitAnyDay == \E data \in Candidates(now) : AdmitOf(data)

\* nothing happens for a month and a day
Idle ==
    /\ now + max_age_days + 1 <= LastDay
    /\ now' = now + max_age_days + 1
    /\ last' = [op |-> "tick", id |-> 0, result |-> "ok", recurrence |-> "-"]
    /\ UNCHANGED <<sent, lock, calls, rows, seq, timers, runs, updates, deletions>>

\* cleanup_old_tasks() called by a housekeeping job (it has no caller in the bot)
Cleanup ==
    /\ rows' = cleanup_old_tasks(rows, now)
    /\ last' = [op |-> "cleanup", id |-> 0,
                result |-> IF DOMAIN rows' = DOMAIN rows THEN "none" ELSE "deleted",
                recurrence |-> "-"]
    /\ UNCHANGED <<sent, lock, calls, seq, timers, runs, now, updates, deletions>>

NextCleanup ==
    \/ AdmitAnyDay
    \/ DeleteTask
    \/ Idle
    \/ Sleep
    \/ TimerFires
    \/ FireDelivered
    \/ Cleanup

SpecCleanup == Init /\ [][NextCleanup]_vars

\* ----------------------------------------------------------------- admitters

\* the handlers that may be inside add_scheduled_message at the same time
Callers == {"handler_1", "handler_2"}

\* add_scheduled_message is called: task_hash is computed from the candidate, outside
\* the lock (since: the AUTOINCREMENT mark when the call began)
AdmitEntersOf(caller, data) ==
    /\ caller \notin DOMAIN calls
    /\ seq + Cardinality(DOMAIN calls) < MaxRows
    /\ calls' = [c \in DOMAIN calls \cup {caller} |->
                   IF c = caller
                   THEN [pc |-> "enter", data |-> data, since |-> seq, existing |-> {},
                         delivering |-> FALSE]
                   ELSE calls[c]]
    /\ last' = [op |-> "call", id |-> 0, result |-> "ok", recurrence |-> "-"]
    /\ UNCHANGED <<sent, rows, seq, timers, runs, now, updates, deletions, lock>>

AdmitEnters ==
    \E caller \in Callers : \E data \in NearCandidates(now) : AdmitEntersOf(caller, data)

\* `with get_db_connection() as conn:` is entered and the duplicate SELECT is run
\* (delivering: whether a protocol run was blocked in its delivery call at that time)
AdmitSelectsOf(caller) ==
    /\ caller \in DOMAIN calls
    /\ calls[caller].pc = "enter"
    /\ lock' \in get_db_connection(lock, caller)
    /\ calls' = [calls EXCEPT ![caller].pc = "selected",
                              ![caller].existing =
                                  ExistingDuplicate(rows, TaskHashOf(calls[caller].data)),
                              ![caller].delivering = (runs # {})]
    /\ last' = [op |-> "select", id |-> 0, result |-> "ok", recurrence |-> "-"]
    /\ UNCHANGED <<sent, rows, seq, timers, runs, now, updates, deletions>>

AdmitSelects == \E caller \in Callers : AdmitSelectsOf(caller)

\* `if existing: raise ValueError`, else the INSERT and the commit; the block is left and
\* the handler goes on to schedule_all_jobs when an id came back
AdmitReturnsOf(caller) ==
    /\ caller \in DOMAIN calls
    /\ calls[caller].pc = "selected"
    /\ LET r == IF calls[caller].existing # {}
                THEN [result |-> "ValueError", id |-> 0, rows |-> rows, seq |-> seq]
                ELSE Inserted(rows, seq, calls[caller].data, now)
       IN  /\ rows' = r.rows
           /\ seq' = r.seq
           /\ timers' = IF r.result = "ok" THEN schedule_all_jobs(r.rows, now) ELSE timers
           /\ last' = [op |-> "admit", id |-> r.id, result |-> r.result, recurrence |-> "-",
                       caller |-> caller, since |-> calls[caller].since,
                       existing |-> calls[caller].existing,
                       delivering |-> calls[caller].delivering]
    /\ lock' = ReleasedBy(lock, caller)
    /\ calls' = [c \in DOMAIN calls \ {caller} |-> calls[c]]
    /\ UNCHANGED <<sent, runs, now, updates, deletions>>

AdmitReturns == \E caller \in Callers : AdmitReturnsOf(caller)

\* /delete while no store call is inside the lock
Cancel == lock = NoOwner /\ DeleteTask

\* the caller the protocol runs are: coroutines started by the job queue
JobQueue == "job_queue"

\* publish_and_reschedule with the send inside a `with get_db_connection()` block
AwaitPublishMessage_InsideConnection(owner, run) == get_db_connection(owner, JobQueue)

\* publish_and_reschedule up to `await publish_message(...)`: no store call is made
\* before the send, so the lock is as it was when the run blocks in the delivery call
AwaitPublishMessage(owner, run) == {owner}

\* a due job leaves the job queue and its run blocks in the delivery call
RunEnters ==
    \E j \in timers :
        /\ j.run_at <= now
        /\ lock' \in AwaitPublishMessage(lock, j)
        /\ timers' = timers \ {j}
        /\ runs' = runs \cup {j}
        /\ last' = [op |-> "timer", id |-> j.msg_id, result |-> "ok",
                    recurrence |-> j.recurrence, chat_id |-> j.chat_id]
        /\ UNCHANGED <<sent, rows, seq, now, updates, deletions, calls>>

\* the delivery call comes back; the store calls after it need the lock
RunReturns == lock = NoOwner /\ (FireDelivered \/ FireTransient)

NextAdmitters ==
    \/ AdmitEnters
    \/ AdmitSelects
    \/ AdmitReturns
    \/ Cancel
    \/ Tick
    \/ RunEnters
    \/ RunReturns

SpecAdmitters == Init /\ [][NextAdmitters]_vars

\* --------------------------------------------------------------- event loop

\* publish_and_reschedule with an await between get_message_by_id and the write
EventLoopBusy_Awaits(reading) == FALSE

\* handlers and jobs are coroutines of one event loop, and publish_and_reschedule has
\* no await after publish_message has come back: while a run is between its
\* get_message_by_id and its return (reading: the runs that are), nothing else runs
EventLoopBusy(reading) == reading # {}

\* the delivery call of a recurring run comes back with a message id (publish_message
\* has created the deferred deletion), and the run reads its row
RunReadsOf(run) ==
    /\ run \in runs
    /\ run \notin DOMAIN calls
    /\ run.recurrence # "once"
    /\ ~EventLoopBusy(DOMAIN calls)
    /\ calls' = [r \in DOMAIN calls \cup {run} |->
                   IF r = run THEN [pc |-> "read", task |-> get_message_by_id(rows, run.msg_id)]
                   ELSE calls[r]]
    /\ deletions' = IF run.delete_after_days > 0
                    THEN deletions \cup {schedule_deletion(run, now)} ELSE deletions
    /\ sent' = sent \cup {SlotOf(run)}
    /\ last' = [op |-> "read", id |-> run.msg_id, result |-> "ok",
                recurrence |-> run.recurrence, chat_id |-> run.chat_id]
    /\ UNCHANGED <<rows, seq, timers, runs, now, updates, lock>>

RunReads == \E run \in runs : RunReadsOf(run)

\* the run computes the next occurrence from the row it read, writes, and returns
RunWritesOf(run) ==
    /\ run \in DOMAIN calls
    /\ rows' = RescheduleFrom(rows, run, calls[run].task)
    /\ runs' = runs \ {run}
    /\ calls' = [r \in DOMAIN calls \ {run} |-> calls[r]]
    /\ last' = [op |-> "fire", id |-> run.msg_id, result |-> "ok",
                recurrence |-> run.recurrence, chat_id |-> run.chat_id]
    /\ UNCHANGED <<sent, seq, timers, now, updates, deletions, lock>>

RunWrites == \E run \in DOMAIN calls : RunWritesOf(run)

\* the delivery call of a run comes back without a message id: the run returns
RunFails == \E run \in runs : run \notin DOMAIN calls /\ FireOf(run, "transient")

\* daily candidates for one channel, due the next day
DailyCandidates(t) == { Session(-1001, k, "daily", t + 1) : k \in Contents }

\* the handlers and the job queue, each running while the event loop is free
LoopRuns ==
    /\ ~EventLoopBusy(DOMAIN calls)
    /\ \/ \E data \in DailyCandidates(now) : AdmitOf(data)
       \/ \E msg_id \in 1..MaxRows : \E data \in DailyCandidates(now) : UpdateOf(msg_id, data)
       \/ DeleteTask
       \/ TimerFires
       \/ RunFails

NextEventLoop ==
    \/ LoopRuns
    \/ Sleep
    \/ RunReads
    \/ RunWrites

SpecEventLoop == Init /\ [][NextEventLoop]_vars

\* ------------------------------------------------------------------ content

\* receive_content on a photo message: the largest size's file_id and the caption typed
\* with it (None when the photo has no caption)
PhotoContents ==
    { [text |-> None, photo_file_id |-> "AgACAgI", document_file_id |-> None, caption |-> cap] :
        cap \in {None, "Menu", "Agenda"} }

\* photo candidates due the next day
PhotoCandidates(t) ==
    { Session(c, k, r, t + 1) : c \in Chats, k \in PhotoContents, r \in NearRecurrences }

AdmitPhoto == \E data \in PhotoCandidates(now) : data.publish_at <= MaxTime /\ AdmitOf(data)

NextContent ==
    \/ AdmitPhoto
    \/ DeleteTask
    \/ Tick

SpecContent == Init /\ [][NextContent]_vars

\* ------------------------------------------------------------------ claims

\* the fields a duplicate is told by, as the row holds them now
SameSchedule(row, data) ==
    /\ row.chat_id = data.chat_id
    /\ row.text = data.text
    /\ row.photo_file_id = data.photo_file_id
    /\ row.document_file_id = data.document_file_id
    /\ row.caption = data.caption
    /\ row.publish_at = data.publish_at
    /\ row.recurrence = data.recurrence

Recurring == {"daily", "weekly", "monthly"}

\* a run whose arguments are those of its row as the table holds it
FreshRun(run) ==
    /\ run.msg_id \in DOMAIN rows
    /\ rows[run.msg_id].active
    /\ rows[run.msg_id].recurrence = run.recurrence
    /\ rows[run.msg_id].chat_id = run.chat_id
    /\ rows[run.msg_id].publish_at = run.original_publish_at

\* C1 (as claimed): an admit whose channel, content, publish_at and recurrence equal
\* those of a currently active row fails with ValueError and leaves the store unchanged.
C1_AdmitEqualToActiveRowFails ==
    [][\A data \in Candidates(now) :
          (AdmitOf(data) /\ \E i \in ActiveIds(rows) : SameSchedule(rows[i], data))
          => (last'.result = "ValueError" /\ rows' = rows /\ seq' = seq)]_vars

\* C1 (amended): an admit whose fingerprint equals the fingerprint an active row was
\* admitted with fails with ValueError and leaves the store unchanged.
C1_AdmitWithActiveFingerprintFails ==
    [][\A data \in Candidates(now) :
          (AdmitOf(data) /\ \E i \in ActiveIds(rows) :
               rows[i].task_hash = <<data.chat_id, data.text, data.photo_file_id,
                                     data.document_file_id, data.publish_at,
                                     data.recurrence>>)
          => (last'.result = "ValueError" /\ rows' = rows /\ seq' = seq)]_vars

\* C1 witness: an admit was refused while the row it duplicates is active
C1_Witness ==
    /\ last.op = "admit"
    /\ last.result = "ValueError"
    /\ ActiveIds(rows) # {}

\* C2: at most one active row holds any one fingerprint.
C2_OneActiveRowPerFingerprint ==
    \A i \in ActiveIds(rows) : \A j \in ActiveIds(rows) :
        rows[i].task_hash = rows[j].task_hash => i = j

\* C2 witness: two rows share a fingerprint, one of them active and one retired,
\* beside which a second active row could not be admitted
C2_Witness ==
    \E i \in DOMAIN rows : \E j \in DOMAIN rows :
        /\ i # j
        /\ rows[i].task_hash = rows[j].task_hash
        /\ rows[i].active
        /\ ~rows[j].active

\* C3 (as claimed): after a successful delivery of a row whose recurrence is once, the
\* row is inactive and absent from the active list.
C3_OnceRowRetiredAfterDelivery ==
    [][\A run \in runs :
          (FireOf(run, "ok") /\ run.msg_id \in DOMAIN rows
               /\ rows[run.msg_id].recurrence = "once")
          => /\ ~rows'[run.msg_id].active
             /\ \A k \in 1..Len(get_all_active_messages(rows')) :
                    get_all_active_messages(rows')[k] # run.msg_id]_vars

\* C3 (amended): after a successful delivery by a run that was armed with recurrence
\* once, the row is inactive and absent from the active list.
C3_OnceRunRetiresRow ==
    [][\A run \in runs :
          (FireOf(run, "ok") /\ run.msg_id \in DOMAIN rows /\ run.recurrence = "once")
          => /\ ~rows'[run.msg_id].active
             /\ \A k \in 1..Len(get_all_active_messages(rows')) :
                    get_all_active_messages(rows')[k] # run.msg_id]_vars

\* C3 witness: a run armed with once has delivered and its row is retired
C3_Witness ==
    /\ last.op = "fire"
    /\ last.result = "ok"
    /\ last.recurrence = "once"
    /\ last.id \in DOMAIN rows
    /\ ~rows[last.id].active

\* C4: after a successful delivery of an active recurring row whose next occurrence is
\* within max_end_date, the row is active, publish_at is that next occurrence and
\* original_publish_at is unchanged.
C4_RecurringRowAdvances ==
    [][\A run \in runs :
          (FireOf(run, "ok") /\ FreshRun(run) /\ run.recurrence \in Recurring)
          => LET row == rows[run.msg_id]
                 next == next_recurrence_time(row.original_publish_at, row.recurrence,
                                              row.publish_at)
             IN  \A nt \in next :
                     nt <= row.max_end_date
                     => /\ rows'[run.msg_id].active
                        /\ rows'[run.msg_id].publish_at = nt
                        /\ rows'[run.msg_id].original_publish_at = row.original_publish_at]_vars

\* C5: after a successful delivery of an active recurring row whose next occurrence is
\* past max_end_date, the row is inactive and publish_at is not advanced.
C5_RecurringRowRetiredPastHorizon ==
    [][\A run \in runs :
          (FireOf(run, "ok") /\ FreshRun(run) /\ run.recurrence \in Recurring)
          => LET row == rows[run.msg_id]
                 next == next_recurrence_time(row.original_publish_at, row.recurrence,
                                              row.publish_at)
             IN  \A nt \in next :
                     nt > row.max_end_date
                     => /\ ~rows'[run.msg_id].active
                        /\ rows'[run.msg_id].publish_at = row.publish_at]_vars

\* C6: when a run fails with Forbidden / BadRequest, every row that was active on the
\* run's channel is inactive once the run has finished.
C6_ForbiddenSuspendsChannel ==
    [][\A run \in runs :
          FireOf(run, "forbidden")
          => \A i \in ActiveIds(rows) :
                 rows[i].chat_id = run.chat_id => ~rows'[i].active]_vars

\* C7: a run whose delivery fails transiently changes nothing in the store.
C7_TransientFailureLeavesStore ==
    [][\A run \in runs : FireOf(run, "transient") => (rows' = rows /\ seq' = seq)]_vars

\* C7 witness: a transient failure has been handled for a row that is still active
C7_Witness ==
    /\ last.op = "fire"
    /\ last.result = "transient"
    /\ last.id \in ActiveIds(rows)

\* C8: a row whose run failed transiently, and which stays active, is eventually
\* fired again.
C8_TransientFailureRetried ==
    \A i \in 1..MaxRows :
        (last.op = "fire" /\ last.result = "transient" /\ last.id = i)
        ~> (\/ \E run \in runs : run.msg_id = i
            \/ i \notin ActiveIds(rows))

\* C9: no active row has publish_at past its max_end_date.
C9_ActiveRowWithinHorizon ==
    \A i \in ActiveIds(rows) : rows[i].publish_at <= rows[i].max_end_date

\* C10: a daily row delivered successfully moves on to the next day while that day is
\* within original_publish_at + 365 days, and is retired at the first delivery whose
\* next day is past it.
C10_DailyRowRunsOneYear ==
    [][\A run \in runs :
          (FireOf(run, "ok") /\ FreshRun(run) /\ run.recurrence = "daily")
          => LET row == rows[run.msg_id]
                 next == row.publish_at + 1
             IN  IF next <= row.original_publish_at + HorizonDays
                 THEN rows'[run.msg_id].active /\ rows'[run.msg_id].publish_at = next
                 ELSE ~rows'[run.msg_id].active]_vars

\* C11: cancel is idempotent: on a missing or already inactive row it changes nothing,
\* a second cancel leaves the store as the first left it, and a cancel changes no field
\* other than active of the targeted row.
C11_CancelIdempotent ==
    [][\A id \in 1..MaxRows :
          (AdminDeleteOf(id) \/ DeleteOf(id))
          => /\ DOMAIN rows' = DOMAIN rows
             /\ \A i \in DOMAIN rows : i # id => rows'[i] = rows[i]
             /\ id \in DOMAIN rows
                    => /\ ~rows'[id].active
                       /\ [rows'[id] EXCEPT !.active = rows[id].active] = rows[id]
             /\ (id \notin DOMAIN rows \/ ~rows[id].active) => rows' = rows
             /\ deactivate_message(rows', id) = rows']_vars

\* C11 witness: a cancel was made on a row that was already inactive
C11_Witness ==
    /\ last.op = "admin_delete"
    /\ last.result = "inactive"
    /\ last.id \in DOMAIN rows
    /\ ~rows[last.id].active

\* C12: advance on a row that is inactive or missing changes nothing in the store:
\* publish_at and active of that row and of every other row are unchanged.
C12_AdvanceOfInactiveRowIsNoOp ==
    [][\A id \in 1..MaxRows : \A d \in {1, 7} :
          (AdvanceOf(id, now + d) /\ (id \notin DOMAIN rows \/ ~rows[id].active))
          => rows' = rows]_vars

\* C12 witness: an advance arrived for a row that had been cancelled, and the row is
\* still inactive at the publish_at it had
C12_Witness ==
    /\ last.op = "advance"
    /\ last.result = "inactive"
    /\ last.id \in DOMAIN rows
    /\ ~rows[last.id].active
    /\ rows[last.id].publish_at = rows[last.id].original_publish_at

\* an admission, a cancellation or a fire has just completed in the bot process
OperationCompleted ==
    \/ last.op = "admit" /\ last.result = "ok"
    \/ last.op = "delete_task" /\ last.result = "ok"
    \/ last.op = "fire"

\* C13: after every completed admission, cancellation or fire the timer set holds
\* exactly one armed timer for each active row (a row whose one-shot timer has just
\* gone off and is being delivered excepted) and no timer for an inactive row.
C13_TimersMatchActiveRows ==
    OperationCompleted
    => /\ \A i \in ActiveIds(rows) :
              (\A run \in runs : run.msg_id # i)
              => Cardinality({j \in timers : j.msg_id = i}) = 1
       /\ \A j \in timers : j.msg_id \in ActiveIds(rows)

\* C14: a recurring row that was delivered successfully and is still active is armed
\* again (a rebuild follows the advance), so that it is fired for its next occurrence.
C14_RecurringRowFiredAgain ==
    \A i \in 1..MaxRows :
        (/\ last.op = "fire" /\ last.result = "ok" /\ last.id = i
         /\ last.recurrence \in Recurring
         /\ i \in ActiveIds(rows) /\ rows[i].recurrence \in Recurring)
        ~> (\/ \E j \in timers : j.msg_id = i
            \/ \E run \in runs : run.msg_id = i
            \/ i \notin ActiveIds(rows))

\* C15: when the send succeeds and the pin fails with any error, the fire is a success:
\* the delivered id is returned and the store is left as after a successful delivery.
C15_PinFailureKeepsDelivery ==
    [][\A run \in runs : \A pinned \in PinOutcomes \ {"pinned"} :
          (DeliverOf(run, "sent", pinned) /\ run.pin)
          => /\ last'.result = "ok"
             /\ rows' = publish_and_reschedule(rows, run, "ok")]_vars

\* C16: an armed deferred deletion stays armed until it runs itself, whatever happens
\* to the owning row, and its run changes no row.
C16_DeletionDetachedFromRow ==
    [][/\ \A d \in deletions :
             \/ d \in deletions'
             \/ \E outcome \in {"deleted", "bad_request", "exception"} :
                    DeletionRunsOf(d, outcome)
       /\ \A d \in deletions : \A outcome \in {"deleted", "bad_request", "exception"} :
             DeletionRunsOf(d, outcome) => rows' = rows]_vars

\* C16 witness: the deletion of a message failed after its owning row was cancelled,
\* and the row is as the cancel left it
C16_Witness ==
    /\ last.op = "deletion"
    /\ last.result = "bad_request"
    /\ last.id \in DOMAIN rows
    /\ ~rows[last.id].active
    /\ rows[last.id].recurrence = "daily"

\* a row the rebuild is to leave out: unparsable publish_at or malformed recurrence
BadRow(row) == fromisoformat(row.publish_at) = {} \/ row.recurrence \notin Recurrences

\* the table as if its bad rows were absent from the active list
WithoutBadRows(store) ==
    [i \in DOMAIN store |->
        IF BadRow(store[i]) THEN [store[i] EXCEPT !.active = FALSE] ELSE store[i]]

\* C17: a rebuild over a store that holds a bad active row does not abort, arms no
\* timer for the bad row and arms every other active row as if the bad row were absent.
C17_RebuildSkipsBadRow ==
    [][Rebuild
       => /\ last'.result = "ok"
          /\ \A j \in timers' : ~BadRow(rows[j.msg_id])
          /\ timers' = schedule_all_jobs(WithoutBadRows(rows), now)]_vars

\* C18: for daily, weekly and monthly the next occurrence is one time, later than last
\* (last + 1 day, last + 7 days, last + a calendar month), the same for every original;
\* for once there is none.
C18_NextOccurrenceAfterLast ==
    last.op = "next"
    => /\ last.recurrence = "daily" => last.next = {last.lastt + 1}
       /\ last.recurrence = "weekly" => last.next = {last.lastt + 7}
       /\ last.recurrence = "monthly"
              => /\ Cardinality(last.next) = 1
                 /\ \A n \in last.next : n > last.lastt /\ n <= last.lastt + 31
       /\ last.recurrence = "once" => last.next = {}
       /\ \A original \in {0, last.lastt, last.original} :
              next_recurrence_time(original, last.recurrence, last.lastt) = last.next

\* C18 witness: the second weekly occurrence was asked for, a week after the first
C18_Witness ==
    /\ last.op = "next"
    /\ last.recurrence = "weekly"
    /\ last.lastt = last.original + 7
    /\ last.next = {last.original + 14}

\* C19: the next monthly occurrence lies in the calendar month after last's (January of
\* the next year after December), on last's day of month or, where that month is
\* shorter, on its last day.
C19_MonthlyNextMonthClamped ==
    (last.op = "next" /\ last.recurrence = "monthly")
    => /\ last.next # {}
       /\ \A n \in last.next :
              LET from == ToDate(last.lastt)
                  to == ToDate(n)
              IN  /\ to.m = (IF from.m = 12 THEN 1 ELSE from.m + 1)
                  /\ to.y = (IF from.m = 12 THEN from.y + 1 ELSE from.y)
                  /\ to.d = (IF from.d <= DaysInMonth(to.y, to.m)
                             THEN from.d ELSE DaysInMonth(to.y, to.m))
                  /\ n - last.lastt = DaysInMonth(from.y, from.m) - from.d + to.d

\* C19 witness: a row first published on 31 Dec 2024 (day 365) was advanced to
\* 31 Jan 2025 (day 396), and 28 Feb 2025 (day 424) is returned next
C19_Witness ==
    /\ last.op = "next"
    /\ last.recurrence = "monthly"
    /\ last.original = 365
    /\ last.lastt = 396
    /\ last.next = {424}

\* C20: publish_at of a row is not before the current time when the row is admitted,
\* and not before it when a successful delivery has moved publish_at on.
C20_PublishAtNotInPast ==
    [][/\ \A data \in PendingSessions(now) :
             (AdmitOf(data) /\ last'.result = "ok") => rows'[last'.id].publish_at >= now
       /\ \A run \in runs :
             (/\ FireOf(run, "ok")
              /\ run.msg_id \in DOMAIN rows
              /\ rows'[run.msg_id].publish_at # rows[run.msg_id].publish_at)
             => rows'[run.msg_id].publish_at >= now]_vars

\* C21: original_publish_at is the publish_at a row was admitted with, and no step
\* (advance, cancel, update, suspension, fire) changes it afterwards
C21_OriginalPublishAtFixed ==
    [][/\ \A i \in DOMAIN rows \cap DOMAIN rows' :
              rows'[i].original_publish_at = rows[i].original_publish_at
       /\ \A i \in DOMAIN rows' \ DOMAIN rows :
              rows'[i].original_publish_at = rows'[i].publish_at]_vars

\* C21 witness: an update has just moved a row's publish_at away from the one it was
\* admitted with
C21_Witness ==
    /\ last.op = "update"
    /\ last.id \in DOMAIN rows
    /\ rows[last.id].publish_at # rows[last.id].original_publish_at
\* C22 (as claimed): in every reachable state every row's max_end_date is its
\* created_at plus 365 days
C22_MaxEndDateIsCreationPlusYear ==
    \A i \in DOMAIN rows : rows[i].max_end_date = rows[i].created_at + HorizonDays

\* C22 (amended): a row is admitted with max_end_date = created_at + 365 days; a step
\* that changes a row's max_end_date is an update_scheduled_message of that row, and it
\* sets max_end_date to the time of the update plus 365 days
C22_MaxEndDateMovedOnlyByUpdate ==
    [][/\ \A i \in DOMAIN rows' \ DOMAIN rows :
              rows'[i].max_end_date = rows'[i].created_at + HorizonDays
       /\ \A i \in DOMAIN rows \cap DOMAIN rows' :
              \/ rows'[i].max_end_date = rows[i].max_end_date
              \/ /\ last'.op = "update"
                 /\ last'.id = i
                 /\ rows'[i].max_end_date = now + HorizonDays
       /\ \A i \in DOMAIN rows \cap DOMAIN rows' :
              last'.op = "update" /\ last'.id = i => rows'[i].max_end_date = now + HorizonDays]_vars

\* C22 witness: an update made a day after the admission has moved max_end_date
C22_Witness ==
    /\ last.op = "update"
    /\ last.id \in DOMAIN rows
    /\ rows[last.id].max_end_date = now + HorizonDays
    /\ rows[last.id].max_end_date > rows[last.id].created_at + HorizonDays
\* C23: once a Forbidden / BadRequest failure on a channel has been handled, no job of
\* a row that existed then starts a delivery to that channel any more
C23_SuspensionNotRetried ==
    \A c \in Chats : \A n \in 1..MaxRows :
        []((last.op = "fire" /\ last.result = "forbidden" /\ last.chat_id = c /\ seq = n)
             => []~(last.op = "timer" /\ last.chat_id = c /\ last.id <= n))
\* C24: a candidate that differs from every active row in its channel, its content
\* (text, photo, document or caption), its publish_at or its recurrence is inserted
\* under an id no row had before
C24_AdmitRejectsOnlyEqualActiveRow ==
    [][\A data \in PhotoCandidates(now) :
           (AdmitOf(data) /\ \A i \in ActiveIds(rows) : ~SameSchedule(rows[i], data))
               => /\ last'.result = "ok"
                  /\ last'.id \notin DOMAIN rows
                  /\ last'.id \in DOMAIN rows']_vars
\* C25 (as claimed): an admit returns an id no admit returned before, and no step of
\* admit, cancel, fire or cleanup removes a row: every row stays readable by its id
C25_IdsFreshAndRowsKept ==
    [][/\ (last'.op = "admit" /\ last'.result = "ok") => last'.id > seq
       /\ \A i \in DOMAIN rows : get_message_by_id(rows', i) # {}]_vars

\* C25 (amended): an admit returns an id above every id returned before, one that no
\* row and no armed job carries; a row stops being readable only by a cleanup, and only
\* when it was inactive and created more than max_age_days before
C25_IdsFreshAndRowsKeptUntilCleanup ==
    [][/\ (last'.op = "admit" /\ last'.result = "ok") =>
              /\ last'.id > seq
              /\ last'.id \notin DOMAIN rows
              /\ \A j \in timers \cup runs : j.msg_id # last'.id
              /\ get_message_by_id(rows', last'.id) # {}
       /\ \A i \in DOMAIN rows :
              get_message_by_id(rows', i) = {} =>
                  /\ last'.op = "cleanup"
                  /\ ~rows[i].active
                  /\ rows[i].created_at < now - max_age_days]_vars

\* C25 witness: a row has been admitted after a cleanup deleted the row with the
\* largest id of the table
C25_Witness ==
    /\ last.op = "admit"
    /\ last.result = "ok"
    /\ \A i \in DOMAIN rows : i >= last.id
    /\ last.id > 1
\* C26: an admit that overlaps other admits returns what add_scheduled_message returns
\* when it runs alone on the table as it is at the return (the check and the insert are
\* one step for every other caller), and no two active rows carry one task_hash: of two
\* overlapping admits of one candidate, one gets an id and the other ValueError
C26_ConcurrentAdmitsAtomic ==
    [][/\ \A caller \in Callers :
              AdmitReturnsOf(caller) =>
                  LET r == add_scheduled_message(rows, seq, calls[caller].data, now)
                  IN  /\ rows' = r.rows
                      /\ seq' = r.seq
                      /\ last'.result = r.result
                      /\ last'.id = r.id
       /\ \A i \in ActiveIds(rows') : \A j \in ActiveIds(rows') :
              rows'[i].task_hash = rows'[j].task_hash => i = j]_vars

\* C26 witness: an admit has failed on a row that another caller inserted after this
\* call had begun
C26_Witness ==
    /\ last.op = "admit"
    /\ last.result = "ValueError"
    /\ \E i \in last.existing : i > last.since
\* C28: while a run is blocked in its delivery call the run does not hold the store
\* lock: an admit that waits to enter the store can enter it, and a cancel can run,
\* whenever no other admit is inside the store
C28_LockFreeWhileDelivering ==
    runs # {} =>
        /\ lock # JobQueue
        /\ \A caller \in DOMAIN calls :
               (calls[caller].pc = "enter" /\ \A c \in DOMAIN calls : calls[c].pc # "selected")
                   => ENABLED AdmitSelectsOf(caller)
        /\ (\A c \in DOMAIN calls : calls[c].pc # "selected") => ENABLED Cancel

\* C28 witness: an admit entered the store and came back with an id while the run of
\* another row was blocked in its delivery call
C28_Witness ==
    /\ last.op = "admit"
    /\ last.result = "ok"
    /\ last.delivering
    /\ runs # {}
    /\ \A run \in runs : run.msg_id # last.id
C29_InactiveIsTerminal ==
    [][/\ \A i \in DOMAIN rows \cap DOMAIN rows' : ~rows[i].active => ~rows'[i].active
       /\ \A i \in DOMAIN rows' \ DOMAIN rows : rows'[i].active]_vars

\* C29 witness: update_scheduled_message has rewritten a cancelled row, which is still
\* inactive
C29_Witness ==
    /\ last.op = "update"
    /\ last.id \in DOMAIN rows
    /\ ~rows[last.id].active
\* C30: a job that fires, and so starts a delivery, belongs to a row that is active at
\* that moment: after a cancel (/delete or the admin delete) no run of the row starts
C30_NoDeliveryForInactiveRow ==
    [][\A run \in runs' \ runs : run.msg_id \in ActiveIds(rows)]_vars
\* C31: a slot (row, publish_at) is delivered at most once. No job is armed for a slot
\* that has been sent or whose run is in flight, and whenever the send of a run returns a
\* message, whatever the pin does afterwards, no send had succeeded for its slot before:
\* this over every interleaving of admissions, cancellations, their rebuilds of the job
\* queue, timer fires and deliveries.
C31_SlotDeliveredAtMostOnce ==
    /\ [](\A j \in timers : SlotOf(j) \notin sent /\ j \notin runs)
    /\ [][\A run \in runs : \A pinned \in PinOutcomes :
            DeliverOf(run, "sent", pinned) => SlotOf(run) \notin sent]_vars

\* C31 witness: a slot was delivered, its row is still active with that publish_at, and
\* the cancellation of another row has rebuilt the job queue since
C31_Witness ==
    /\ last.op = "delete_task"
    /\ last.result = "ok"
    /\ \E i \in ActiveIds(rows) :
           /\ i # last.id
           /\ <<i, rows[i].publish_at>> \in sent
           /\ rows[i].publish_at <= now

\* C32: the handling of a BadRequest / Forbidden failure of a run on channel C leaves
\* every row of another channel as it was, its active flag and its publish_at included.
C32_FailureScopedToChannel ==
    [][\A run \in runs :
          FireOf(run, "forbidden") =>
              \A i \in DOMAIN rows :
                  rows[i].chat_id # run.chat_id =>
                      /\ i \in DOMAIN rows'
                      /\ rows'[i] = rows[i]]_vars

\* C32 witness: a run on one channel has ended in BadRequest / Forbidden while an active
\* row of another channel was stored
C32_Witness ==
    /\ last.op = "fire"
    /\ last.result = "forbidden"
    /\ \E i \in ActiveIds(rows) : rows[i].chat_id # last.chat_id

\* the candidate has the channel, content and recurrence of the row and the publish_at
\* the row was admitted with
AdmittedAs(row, data) ==
    /\ row.chat_id = data.chat_id
    /\ row.text = data.text
    /\ row.photo_file_id = data.photo_file_id
    /\ row.document_file_id = data.document_file_id
    /\ row.recurrence = data.recurrence
    /\ row.original_publish_at = data.publish_at

\* C33: no operation changes the task_hash of a stored row: admit, cancel, update and
\* advance all leave it as the INSERT wrote it. Consequently, while no row has been
\* updated, an admit is refused exactly when an active row was admitted with the
\* candidate's channel, content, recurrence and publish_at, wherever advances have moved
\* that row's current publish_at since.
C33_FingerprintFixedAtAdmission ==
    /\ [][\A i \in DOMAIN rows :
             i \in DOMAIN rows' /\ rows'[i].task_hash = rows[i].task_hash]_vars
    /\ [][\A data \in SoonCandidates(now) :
             (updates = 0 /\ AdmitOf(data)) =>
                 (last'.result = "ValueError"
                      <=> \E i \in ActiveIds(rows) : AdmittedAs(rows[i], data))]_vars

\* C33 witness: the only row stored is active and has advanced away from the publish_at
\* it was admitted with, and an admit has been refused as its duplicate
C33_Witness ==
    /\ last.op = "admit"
    /\ last.result = "ValueError"
    /\ updates = 0
    /\ DOMAIN rows = {1}
    /\ rows[1].active
    /\ rows[1].publish_at # rows[1].original_publish_at

====
